---- MODULE Spec2Model ----
(***************************************************************************)
(* State-machine model of BaseEnvironment (src/src/env/BaseEnvironment.py) *)
(* of gridworld-economy: the set_agents / reset / step lifecycle, the      *)
(* agent registration loop (ids, colours, names) and the per-step          *)
(* bookkeeping (dones, rewards, timestep and episode counters).            *)
(*                                                                         *)
(* GridWorld, ActionHandler, the agent classes and the visualisation and   *)
(* persistence servers are imported by BaseEnvironment.py but are not part *)
(* of the sources at hand; the small stand-ins used for them follow the    *)
(* design document (sections 3, 4.1, 4.2) and are marked as such.          *)
(***************************************************************************)
EXTENDS Integers, Sequences, FiniteSets, Bags, TLC

VARIABLES
    agents_is_none,     \* self.agents is None (constructor called with agents=None)
    agents,             \* self.agents when it is a list
    n_agents,           \* self.n_agents (None while the attribute was never set)
    state_space,        \* self.state_space
    current_timestep,   \* self.current_timestep
    episode,            \* self.episode
    max_steps,          \* self.max_steps
    cumulative_rewards, \* self.cumulative_rewards
    gridworld,          \* self.gridworld: resource id per cell
    use_react,          \* self.use_react
    use_mongodb,        \* self.use_mongodb
    last_op,            \* the public method called last
    last_err,           \* the exception it raised, or NoError
    count_ok,           \* it was not a step with len(actions) # len(agents)
    ret_rewards,        \* rewards returned by the last step that returned
    ret_dones,          \* dones returned by the last step that returned
    ret_state,          \* observation returned by the last reset or step (<<>>: none)
    seed,               \* self.seed
    stages,             \* the stages the last call went through, in order; the
                        \* last one is where it raised, if it raised
    sent_view,          \* <<the attributes as they were when the last call made
                        \* its first send>>, or <<>> if it made none
    rewards_grid,       \* <<the grid as it was when the last step computed the
                        \* rewards>>, or <<>> if it computed none
    paid,               \* per agent, the sum of the rewards the steps returned
                        \* since the last reset, if that reset returned with no
                        \* other call running while it slept and the agents were
                        \* not replaced since (<<>> otherwise)
    twin,               \* the agent list a second, independent run registers
                        \* from the same arguments (registration in two runs)
    calls,              \* number of steps in the unbroken run of returning steps
                        \* that follows the last returning reset (None if broken
                        \* or if another call ran while that reset slept; Pending
                        \* while that reset sleeps)
    sleeping,           \* number of reset calls inside time.sleep(4), line 175
    sleep_views,        \* per reset call inside the sleep, what it will leave in
                        \* sent_view when it returns (a bag: the calls are threads,
                        \* none is ahead of another)
    overlapped,         \* some call was made while a reset call slept
    completed,          \* number of steps that returned since the counter was
                        \* last initialised by reset (line 143)
    attempts            \* number of step calls since then (or since construction)

vars == <<agents_is_none, agents, n_agents, state_space, current_timestep, episode,
          max_steps, cumulative_rewards, gridworld, use_react, use_mongodb,
          last_op, last_err, count_ok,
          ret_rewards, ret_dones, calls, sleeping, sleep_views, overlapped, completed,
          attempts,
          ret_state, seed, stages, sent_view, rewards_grid, paid, twin>>

(***************************************************************************)
(* Bounds of the model.                                                    *)
(***************************************************************************)
MaxAgents == 2      \* longest agent list in the lifecycle specification
RegMaxAgents == 3   \* longest agent list in the registration specification
MaxSteps == 1       \* max_steps ranges over 1..MaxSteps
MaxEpisode == 2     \* reset is not called once episode reached this
MaxStepCalls == MaxSteps + 1  \* step is called at most this often between two resets
MaxSleepers == 1    \* at most this many reset calls sleep at line 175 at a time
GridW == 1          \* gridworld_size[0]
GridH == 1          \* gridworld_size[1]
NumResources == 1   \* len(default_resources())

(***************************************************************************)
(* Python values.                                                          *)
(***************************************************************************)
None == -1                  \* Python None in an integer-valued attribute
NoneColor == "<None>"       \* Python None in agent.color
NoError == "none"
Pending == -2               \* calls while the reset that will restart it sleeps

\* str(n) for a non-negative integer
RECURSIVE Str(_)
Str(n) ==
    LET digit == <<"0", "1", "2", "3", "4", "5", "6", "7", "8", "9">>
    IN  IF n < 10 THEN digit[n + 1] ELSE Str(n \div 10) \o digit[(n % 10) + 1]

\* matplotlib.colors.cnames restricted to a few of its entries; as in the
\* full table, two names (aqua, cyan) share one hex value.
cnames ==
    [red |-> "#FF0000", aqua |-> "#00FFFF", cyan |-> "#00FFFF",
     blue |-> "#0000FF", lime |-> "#00FF00", gold |-> "#FFD700"]

\* hex_colors = set(cnames.values())
hex_colors == {cnames[k] : k \in DOMAIN cnames}

\* The colour strings of the model whose first character is '#'.
HashStrings == hex_colors \cup {"#123456"}

\* agent.color[0] != "#" is the negation of this
StartsWithHash(c) == c \in HashStrings

\* An agent object as the caller builds it, before registration.
NewAgent(name, color) ==
    [id |-> None, name |-> name, color |-> color, state_space |-> None,
     pos |-> 1, reward |-> 0, hist |-> 0]

(***************************************************************************)
(* set_agents, lines 97-134.                                               *)
(***************************************************************************)
StateSpaceFor(n) == (NumResources + n) * (GridW * GridH)

\* lines 113-115: the id given to the agent met when the counter is at id
AssignId(id) == id

\* A loop that forgets to advance the counter.
NextIdStuck(id) == id

\* line 115: id += 1
NextId(id) == id + 1

\* lines 116-126: the possible <<resolved colour, used_colors>> pairs
ResolveColor(color, used) ==
    IF color = NoneColor
    THEN {<<c, used \cup {c}>> : c \in hex_colors \ used}
    ELSE IF ~StartsWithHash(color)
         THEN IF color \in DOMAIN cnames
              THEN {<<cnames[color], used \cup {cnames[color]}>>}
              ELSE {<<c, used \cup {c}>> : c \in hex_colors \ used}
         ELSE {<<color, used>>}

\* lines 130-134: <<resolved name, names>>
ResolveName(name, names) ==
    IF name \notin DOMAIN names
    THEN <<name, [k \in DOMAIN names \cup {name} |-> IF k = name THEN 0 ELSE names[k]]>>
    ELSE LET bumped == [names EXCEPT ![name] = @ + 1]
         IN  <<name \o "_" \o Str(bumped[name]), bumped>>

\* lines 111-134: the loop over self.agents from position idx on; the set of
\* agent lists it can end with (random.choice makes it a set).
RECURSIVE SetAgentsLoop(_, _, _, _, _, _)
SetAgentsLoop(idx, ags, names, used, id, ss) ==
    IF idx > Len(ags)
    THEN {ags}
    ELSE LET agent == ags[idx]
             nm == ResolveName(agent.name, names)
         IN  UNION { SetAgentsLoop(idx + 1,
                         [ags EXCEPT ![idx] =
                             [agent EXCEPT !.id = AssignId(id), !.state_space = ss,
                                           !.color = cu[1], !.name = nm[1]]],
                         nm[2], cu[2], NextId(id), ss)
                     : cu \in ResolveColor(agent.color, used) }

\* The agent lists set_agents(list) can leave in self.agents.
RegisterAgents(list) ==
    SetAgentsLoop(1, list, <<>>, {}, 1, StateSpaceFor(Len(list)))

(***************************************************************************)
(* Stand-ins for the collaborators of BaseEnvironment: the agent objects,  *)
(* GridWorld and ActionHandler (design document, sections 3, 4.1, 4.2).    *)
(* The grid is a strip of GridW * GridH cells; a cell holds a resource id, *)
(* 0 for empty.                                                            *)
(***************************************************************************)
Cells == 1..(GridW * GridH)
Layouts == [Cells -> 0..NumResources]
ActionCodes == {"move_E", "move_W", "harvest"}

\* agent.reset(): mutable state cleared, identity preserved
AgentReset(a) == [a EXCEPT !.reward = 0, !.hist = 0]

\* agent.step(): one more entry in the agent's per-step history
AgentStep(a) == [a EXCEPT !.hist = @ + 1]

\* agent.get_reward(): what the agent gained since it was last asked
GetReward(a) == a.reward

\* ... and the agent after the call: the accumulator starts again at zero
AfterGetReward(a) == [a EXCEPT !.reward = 0]

\* gridworld.reset(agents): a fresh layout, every agent put on the first cell
GridResetAgents(ags) == [i \in 1..Len(ags) |-> [ags[i] EXCEPT !.pos = 1]]

\* gridworld.step(): regeneration; cell c (0: none) gets its resource back
Regenerate(grid, c) ==
    IF c \in Cells /\ grid[c] = 0 THEN [grid EXCEPT ![c] = 1] ELSE grid

\* One action of one agent: a move is rejected at the boundary, a harvest
\* empties the cell and earns the agent one unit of reward.
ApplyAction(a, act, grid) ==
    CASE act = "move_E" ->
            [agent |-> [a EXCEPT !.pos = IF @ + 1 \in Cells THEN @ + 1 ELSE @],
             grid |-> grid]
      [] act = "move_W" ->
            [agent |-> [a EXCEPT !.pos = IF @ - 1 \in Cells THEN @ - 1 ELSE @],
             grid |-> grid]
      [] OTHER ->
            IF grid[a.pos] # 0
            THEN [agent |-> [a EXCEPT !.reward = @ + 1],
                  grid |-> [grid EXCEPT ![a.pos] = 0]]
            ELSE [agent |-> a, grid |-> grid]

\* action_handler.process_actions(agents, actions, gridworld): the actions
\* are paired with the agents in list order, from position i on.
RECURSIVE ProcessActions(_, _, _, _)
ProcessActions(i, ags, actions, grid) ==
    IF i > Len(ags) \/ i > Len(actions)
    THEN [agents |-> ags, grid |-> grid]
    ELSE LET r == ApplyAction(ags[i], actions[i], grid)
         IN  ProcessActions(i + 1, [ags EXCEPT ![i] = r.agent], actions, r.grid)

(***************************************************************************)
(* reset, lines 136-176.                                                   *)
(***************************************************************************)
\* line 140: not self.agents
NoAgents == agents_is_none \/ agents = <<>>

\* line 141: the exception reset raises when there are no agents
ResetGuardError == "ValueError"

\* line 143
ResetTimestep == 0

\* line 144
ResetEpisode(e) == e + 1

\* line 150
ZeroRewards(ags) == [i \in 1..Len(ags) |-> 0]

\* lines 156-173: the sends of reset; sink names the collaborator that fails
ResetSendError(sink) ==
    IF use_react /\ sink = "react" THEN "SinkError"
    ELSE IF use_mongodb /\ sink = "mongo" THEN "SinkError"
    ELSE NoError

\* The stages of a call that got as far as stage `last` of order.
RECURSIVE StagesUpTo(_, _)
StagesUpTo(order, last) ==
    IF order = <<>> THEN <<>>
    ELSE IF Head(order) = last THEN <<last>>
    ELSE <<Head(order)>> \o StagesUpTo(Tail(order), last)

\* lines 143-176: the stages of reset in the order the code runs them
ResetOrder ==
    <<"agents_reset", "zero_rewards", "grid_reset", "render", "persist",
      "sleep", "observe">>

\* lines 155-176: how far reset gets when the collaborator sink fails
ResetStages(sink) ==
    IF use_react /\ sink = "react" THEN StagesUpTo(ResetOrder, "render")
    ELSE IF use_mongodb /\ sink = "mongo" THEN StagesUpTo(ResetOrder, "persist")
    ELSE StagesUpTo(ResetOrder, "sleep")

(***************************************************************************)
(* step, lines 198-215, with calculate_rewards (178-189) and render_step   *)
(* (217-238).                                                              *)
(***************************************************************************)
\* line 204: the done flag of every agent
DoneFlag(ts, ms) == ts >= ms

\* A step that leaves the counter where it was.
StepTimestepStale(ts) == ts

\* line 213
StepTimestep(ts) == ts + 1

\* lines 178-189: cumulative_rewards after the loop ran over the first k agents
Accumulate(cum, rewards, k) ==
    [i \in 1..Len(cum) |-> IF i <= k THEN cum[i] + rewards[i] ELSE cum[i]]

\* lines 191-192: get_state returns the integer 0; the one-hot map of line 193
\* is never reached.  An observation is modelled by its kind and its shape.
GetState == [kind |-> "int", shape |-> <<>>]

\* lines 199-215: the stages of step in the order the code runs them
StepOrder ==
    <<"resolve", "agent_step", "dones", "rewards", "regenerate",
      "render", "persist", "tick", "observe">>

\* A step that regenerates the grid before it computes the rewards.
GridAtRewardsLate(resolved_grid, grown) == grown

\* line 205 runs before line 206: calculate_rewards sees the grid as action
\* resolution left it, not yet regenerated
GridAtRewards(resolved_grid, grown) == resolved_grid

\* lines 207-213: the sends run before current_timestep is incremented, so
\* they see the counter of the step's start
ViewAtSend(ags, grid, cum, ts) ==
    [agents |-> ags, grid |-> grid, cum |-> cum, ts |-> ts]

\* The whole of step on the current state: the attributes it leaves, the
\* exception it raises (NoError if it returns) and what it returns.
StepOutcome(actions, sink, regen) ==
    LET n == Len(agents)
        resolved == ProcessActions(1, agents, actions, gridworld)
        stepped == [i \in 1..n |-> AgentStep(resolved.agents[i])]
        rewards == [i \in 1..n |-> GetReward(stepped[i])]
        nacc == IF n <= Len(cumulative_rewards) THEN n ELSE Len(cumulative_rewards)
        cum == Accumulate(cumulative_rewards, rewards, nacc)
        \* the agents after calculate_rewards asked the first k of them
        asked(k) == [i \in 1..n |-> IF i <= k THEN AfterGetReward(stepped[i])
                                              ELSE stepped[i]]
        grown == Regenerate(resolved.grid, regen)
        rgrid == <<GridAtRewards(resolved.grid, grown)>>
        view == <<ViewAtSend(asked(n), grown, cum, current_timestep)>>
        base == [agents |-> agents, grid |-> gridworld, cum |-> cumulative_rewards,
                 ts |-> current_timestep, err |-> NoError,
                 rewards |-> <<>>, dones |-> <<>>, state |-> <<>>,
                 stages |-> <<>>, view |-> <<>>, rgrid |-> <<>>]
        \* the step once calculate_rewards and gridworld.step() are through
        late == [base EXCEPT !.agents = asked(n), !.grid = grown, !.cum = cum,
                             !.rgrid = rgrid]
    IN  IF agents_is_none
        THEN \* lines 199-200: iterating None
             [base EXCEPT !.err = "TypeError",
                          !.stages = StagesUpTo(StepOrder, "resolve")]
        ELSE IF n > 0 /\ current_timestep = None
        THEN \* line 204: None >= int
             [base EXCEPT !.agents = stepped, !.grid = resolved.grid,
                          !.err = "TypeError",
                          !.stages = StagesUpTo(StepOrder, "dones")]
        ELSE IF n > Len(cumulative_rewards)
        THEN \* line 187: cumulative_rewards[idx] out of range
             [base EXCEPT !.agents = asked(nacc + 1), !.grid = resolved.grid,
                          !.cum = cum, !.err = "IndexError", !.rgrid = rgrid,
                          !.stages = StagesUpTo(StepOrder, "rewards")]
        ELSE IF use_react /\ current_timestep = None
        THEN \* line 225: range(None)
             [late EXCEPT !.err = "TypeError",
                          !.stages = StagesUpTo(StepOrder, "render")]
        ELSE IF use_react /\ \E i \in 1..n : stepped[i].hist < current_timestep
        THEN \* line 228: agent.xps[i] out of range
             [late EXCEPT !.err = "IndexError",
                          !.stages = StagesUpTo(StepOrder, "render")]
        ELSE IF use_react /\ sink = "react"
        THEN \* line 231: the send raises
             [late EXCEPT !.err = "SinkError", !.view = view,
                          !.stages = StagesUpTo(StepOrder, "render")]
        ELSE IF use_mongodb /\ sink = "mongo"
        THEN \* lines 211-212: the send raises
             [late EXCEPT !.err = "SinkError", !.view = view,
                          !.stages = StagesUpTo(StepOrder, "persist")]
        ELSE IF current_timestep = None
        THEN \* line 213: None += 1
             [late EXCEPT !.err = "TypeError",
                          !.view = IF use_react \/ use_mongodb THEN view ELSE <<>>,
                          !.stages = StagesUpTo(StepOrder, "tick")]
        ELSE [late EXCEPT !.ts = StepTimestep(current_timestep),
                          !.rewards = rewards,
                          !.dones = [i \in 1..n |-> DoneFlag(current_timestep, max_steps)],
                          !.state = <<GetState>>,
                          !.view = IF use_react \/ use_mongodb THEN view ELSE <<>>,
                          !.stages = StepOrder]

(***************************************************************************)
(* The inputs of the public methods.                                       *)
(***************************************************************************)
SeqsUpTo(S, n) == UNION {[1..k -> S] : k \in 0..n}

\* Agent lists of the lifecycle specification.
LifeLists == SeqsUpTo({NewAgent("a", "red")}, MaxAgents)

\* Agent lists of the registration specification: names that collide, names
\* that already carry a suffix, colours of every kind the loop tells apart.
RegNames == {"a", "a_1"}
RegColors == {NoneColor, "red", "aqua", "cyan", "teal?", "#FF0000"}
RegLists == SeqsUpTo({NewAgent(nm, c) : nm \in RegNames, c \in RegColors}, RegMaxAgents)

\* An argument of set_agents: a list, or something that is no list.
ListArg(list) == [is_list |-> TRUE, items |-> list]
NotAList == [is_list |-> FALSE, items |-> <<>>]

\* The action lists passed to step: of any length up to the longest agent list.
ActionLists == SeqsUpTo({"move_E", "harvest"}, MaxAgents)
\* What the visualisation and persistence collaborators do with a send:
\* both accept it, or the named one raises.
Responding == {"ok"}
Sinks == {"ok", "react", "mongo"}

(***************************************************************************)
(* __init__, lines 33-95.                                                  *)
(***************************************************************************)
\* BaseEnvironment(agents = ..., seed = ...) with the seed drawn from seeds
InitSeeded(ctor_agents_none, ctor_agents, seeds) ==
    /\ agents_is_none = ctor_agents_none
    /\ seed \in seeds               \* line 55
    /\ IF ~ctor_agents_none /\ ctor_agents # <<>>
       THEN \* lines 60-62
            /\ agents \in RegisterAgents(ctor_agents)
            /\ n_agents = Len(ctor_agents)
       ELSE \* line 64
            /\ agents = <<>>
            /\ n_agents = None
    /\ max_steps \in 1..MaxSteps
    /\ gridworld \in Layouts
    /\ current_timestep = None      \* line 70
    /\ episode = 0                  \* line 71
    /\ state_space = None           \* line 77
    /\ cumulative_rewards = <<>>    \* line 78
    /\ use_react = TRUE            \* line 40, the default
    /\ use_mongodb = TRUE          \* line 41, the default
    /\ last_op = "init"
    /\ last_err = NoError
    /\ count_ok = TRUE
    /\ ret_rewards = <<>>
    /\ ret_dones = <<>>
    /\ calls = None
    /\ sleeping = 0
    /\ sleep_views = EmptyBag
    /\ overlapped = FALSE
    /\ completed = None
    /\ attempts = 0
    /\ ret_state = <<>>
    /\ stages = <<>>
    /\ sent_view = <<>>
    /\ rewards_grid = <<>>
    /\ paid = <<>>
    /\ twin = <<>>

\* BaseEnvironment(agents = ...): seed defaults to None (line 39)
InitWith(ctor_agents_none, ctor_agents) ==
    InitSeeded(ctor_agents_none, ctor_agents, {None})

\* BaseEnvironment(max_steps = ...): agents defaults to None
Init == InitWith(TRUE, <<>>)

(***************************************************************************)
(* The public methods as actions.                                          *)
(***************************************************************************)
\* line 98: the exception for an argument that is no list
SetAgentsTypeError == "TypeError"

\* set_agents(arg) on agent lists drawn from the set lists; with twice, a
\* second run of the program makes the same call and twin is what it registers
SetAgentsRuns(lists, twice) ==
    \E arg \in {ListArg(l) : l \in lists} \cup {NotAList} :
        /\ last_op' = "set_agents"
        /\ count_ok' = TRUE
        /\ ret_rewards' = <<>>
        /\ ret_dones' = <<>>
        /\ calls' = None
        /\ IF ~arg.is_list
           THEN /\ last_err' = SetAgentsTypeError
                /\ twin' = <<>>
                /\ UNCHANGED <<agents_is_none, agents, n_agents, state_space, paid>>
           ELSE /\ last_err' = NoError
                /\ agents_is_none' = FALSE
                /\ agents' \in RegisterAgents(arg.items)
                /\ twin' \in IF twice THEN RegisterAgents(arg.items) ELSE {<<>>}
                /\ n_agents' = Len(arg.items)
                /\ state_space' = StateSpaceFor(Len(arg.items))
                /\ paid' = <<>>
        /\ ret_state' = <<>>
        /\ stages' = <<>>
        /\ sent_view' = <<>>
        /\ rewards_grid' = <<>>
        /\ UNCHANGED <<current_timestep, episode, max_steps, cumulative_rewards,
                       gridworld, use_react, use_mongodb, completed, attempts, seed,
                       sleeping, sleep_views>>
        /\ overlapped' = (overlapped \/ sleeping > 0)

SetAgentsFrom(lists) == SetAgentsRuns(lists, FALSE)

SetAgents == SetAgentsFrom(LifeLists)

\* reset() from its first line to the moment it either raises or enters the
\* sleep of line 175; other callers run while it sleeps
ResetWith(sinks) ==
    \E sink \in sinks, layout \in Layouts :
        /\ count_ok' = TRUE
        /\ ret_rewards' = <<>>
        /\ ret_dones' = <<>>
        /\ rewards_grid' = <<>>
        /\ ret_state' = <<>>
        /\ overlapped' = (overlapped \/ sleeping > 0)
        /\ IF NoAgents
           THEN /\ last_op' = "reset"
                /\ last_err' = ResetGuardError
                /\ calls' = None
                /\ stages' = <<>>
                /\ sent_view' = <<>>
                /\ UNCHANGED <<agents, current_timestep, episode, cumulative_rewards,
                               gridworld, completed, attempts, paid, sleeping,
                               sleep_views>>
           ELSE /\ episode < MaxEpisode
                /\ sleeping < MaxSleepers
                /\ current_timestep' = ResetTimestep
                /\ episode' = ResetEpisode(episode)
                /\ agents' = GridResetAgents([i \in 1..Len(agents) |-> AgentReset(agents[i])])
                /\ cumulative_rewards' = ZeroRewards(agents)
                /\ gridworld' = layout
                /\ last_err' = ResetSendError(sink)
                /\ sent_view' = IF use_react \/ use_mongodb
                                THEN <<ViewAtSend(agents', layout, ZeroRewards(agents),
                                                  ResetTimestep)>>
                                ELSE <<>>
                /\ IF ResetSendError(sink) = NoError
                   THEN \* line 175: the call sleeps
                        /\ last_op' = "reset_sleep"
                        /\ sleeping' = sleeping + 1
                        /\ sleep_views' = sleep_views (+) SetToBag({sent_view'})
                        /\ calls' = IF sleeping = 0 THEN Pending ELSE None
                   ELSE \* a send raised: the call is over
                        /\ last_op' = "reset"
                        /\ sleeping' = sleeping
                        /\ sleep_views' = sleep_views
                        /\ calls' = None
                /\ paid' = <<>>
                /\ stages' = ResetStages(sink)
                /\ completed' = 0
                /\ attempts' = 0
        /\ twin' = <<>>
        /\ UNCHANGED <<agents_is_none, n_agents, state_space, max_steps,
                       use_react, use_mongodb, seed>>

\* lines 175-176: a sleeping reset wakes and returns get_state() and {} over
\* whatever the attributes hold by then; the call that returns is the call
\* that made the sends of lines 156-173 before it slept
ResetReturn ==
    /\ sleeping > 0
    /\ sleeping' = sleeping - 1
    /\ \E view \in BagToSet(sleep_views) :
           /\ sent_view' = view
           /\ sleep_views' = sleep_views (-) SetToBag({view})
    /\ last_op' = "reset"
    /\ last_err' = NoError
    /\ count_ok' = TRUE
    /\ ret_state' = <<GetState>>
    /\ ret_rewards' = <<>>
    /\ ret_dones' = <<>>
    /\ stages' = ResetOrder
    /\ rewards_grid' = <<>>
    /\ twin' = <<>>
    /\ calls' = IF calls = Pending /\ sleeping = 1 THEN 0 ELSE None
    /\ paid' = IF calls = Pending /\ sleeping = 1
               THEN [i \in 1..Len(agents) |-> 0] ELSE <<>>
    /\ UNCHANGED <<agents_is_none, agents, n_agents, state_space, current_timestep,
                   episode, max_steps, cumulative_rewards, gridworld, use_react,
                   use_mongodb, completed, attempts, seed, overlapped>>

\* calculate_rewards() called directly, lines 178-189
CalculateRewards ==
    LET n == Len(agents)
        rewards == [i \in 1..n |-> GetReward(agents[i])]
        nacc == IF n <= Len(cumulative_rewards) THEN n ELSE Len(cumulative_rewards)
        \* get_reward() was called on the first k agents
        asked(k) == [i \in 1..n |-> IF i <= k THEN AfterGetReward(agents[i])
                                              ELSE agents[i]]
    IN  /\ last_op' = "calculate_rewards"
        /\ count_ok' = TRUE
        /\ IF agents_is_none
           THEN \* line 180: enumerate(None)
                /\ last_err' = "TypeError"
                /\ ret_rewards' = <<>>
                /\ UNCHANGED <<agents, cumulative_rewards>>
           ELSE IF n > Len(cumulative_rewards)
           THEN \* line 187: cumulative_rewards[idx] out of range
                /\ last_err' = "IndexError"
                /\ ret_rewards' = <<>>
                /\ agents' = asked(nacc + 1)
                /\ cumulative_rewards' = Accumulate(cumulative_rewards, rewards, nacc)
           ELSE /\ last_err' = NoError
                /\ ret_rewards' = rewards
                /\ agents' = asked(n)
                /\ cumulative_rewards' = Accumulate(cumulative_rewards, rewards, n)
        /\ ret_dones' = <<>>
        /\ ret_state' = <<>>
        /\ stages' = <<>>
        /\ sent_view' = <<>>
        /\ rewards_grid' = <<>>
        /\ twin' = <<>>
        /\ calls' = IF calls = Pending THEN None ELSE calls
        /\ overlapped' = (overlapped \/ sleeping > 0)
        /\ UNCHANGED <<agents_is_none, n_agents, state_space, current_timestep,
                       episode, max_steps, gridworld, use_react, use_mongodb,
                       completed, attempts, seed, paid, sleeping, sleep_views>>

StepWith(sinks) ==
    \E actions \in ActionLists, sink \in sinks, regen \in {0} \cup Cells :
        /\ attempts < MaxStepCalls
        /\ \E out \in {StepOutcome(actions, sink, regen)} :
            /\ attempts' = attempts + 1
            /\ last_op' = "step"
            /\ count_ok' = (Len(actions) = Len(agents))
            /\ last_err' = out.err
            /\ agents' = out.agents
            /\ gridworld' = out.grid
            /\ cumulative_rewards' = out.cum
            /\ current_timestep' = out.ts
            /\ ret_rewards' = out.rewards
            /\ ret_dones' = out.dones
            /\ calls' = IF out.err = NoError /\ calls >= 0 THEN calls + 1 ELSE None
            /\ completed' = IF out.err = NoError THEN completed + 1 ELSE completed
            /\ paid' = IF out.err = NoError /\ paid # <<>>
                       THEN [i \in 1..Len(paid) |-> paid[i] + out.rewards[i]]
                       ELSE paid
            /\ ret_state' = out.state
            /\ stages' = out.stages
            /\ sent_view' = out.view
            /\ rewards_grid' = out.rgrid
            /\ twin' = <<>>
            /\ overlapped' = (overlapped \/ sleeping > 0)
            /\ UNCHANGED <<agents_is_none, n_agents, state_space, episode, max_steps,
                           use_react, use_mongodb, seed, sleeping, sleep_views>>

\* The lifecycle with collaborators that accept every send.
Reset == ResetWith(Responding)

Step == StepWith(Responding)

Next == SetAgents \/ Reset \/ ResetReturn \/ Step \/ CalculateRewards

Spec == Init /\ [][Next]_vars

\* The lifecycle with collaborators whose send may raise.
ResetFaulty == ResetWith(Sinks)

StepFaulty == StepWith(Sinks)

FaultNext ==
    SetAgents \/ ResetFaulty \/ ResetReturn \/ StepFaulty \/ CalculateRewards

FaultSpec == Init /\ [][FaultNext]_vars

(***************************************************************************)
(* Registration alone: the first set_agents call on a fresh environment,   *)
(* on agent lists with colliding names and colours.  What set_agents       *)
(* leaves does not depend on the state it is called in.                    *)
(***************************************************************************)
RegInit == Init

SetAgentsReg == agents_is_none /\ SetAgentsFrom(RegLists)

RegNext == SetAgentsReg

RegSpec == RegInit /\ [][RegNext]_vars

(***************************************************************************)
(* The constructor given agents (lines 59-62), then the same lifecycle.    *)
(***************************************************************************)
CtorInit == \E l \in LifeLists : InitWith(FALSE, l)

CtorNext == SetAgents \/ Reset \/ ResetReturn \/ Step \/ CalculateRewards

CtorSpec == CtorInit /\ [][CtorNext]_vars

(***************************************************************************)
(* Two runs of the program, each constructed with the same seed and each   *)
(* given the same agent list by its first set_agents call.  The colour of  *)
(* line 118 is drawn by random.choice, a source neither np.random.seed     *)
(* (line 57) nor any other line seeds, from a set whose iteration order    *)
(* differs from run to run: each run's draw is any of the colours left.    *)
(***************************************************************************)
\* seed = None (the default), 0 and a non-zero integer
Seeds == {None, 0, 1}

DetLists == SeqsUpTo({NewAgent("a", c) : c \in {NoneColor, "red"}}, MaxAgents)

DetInit == InitSeeded(TRUE, <<>>, Seeds)

SetAgentsTwice == agents_is_none /\ SetAgentsRuns(DetLists, TRUE)

DetNext == SetAgentsTwice

DetSpec == DetInit /\ [][DetNext]_vars

(***************************************************************************)
(* Properties.                                                             *)
(***************************************************************************)
Returned(op) == last_op = op /\ last_err = NoError

\* The episode is under way: started by reset and not yet at max_steps.
Running == current_timestep # None /\ current_timestep < max_steps

\* Every call so far was made while no other call was in progress.
Sequential == ~overlapped

\* C1 (calls made one at a time, none while another is in progress):
\* after a fresh reset, the M-th step call (M = max_steps) returns done =
\* True for every agent and each of the calls 1..M-1 returns False for every
\* agent (steps given one action per agent).
C1_DoneOnFinalCall ==
    (Sequential /\ Returned("step") /\ count_ok /\ calls >= 0 /\ calls <= max_steps)
        => ret_dones = [i \in 1..Len(agents) |-> (calls = max_steps)]

\* C2: episode never decreases, grows by exactly 1 on each reset that gets
\* through (when it restarts the counters, before its sleep; its return
\* changes neither) and is left alone by step, set_agents and
\* calculate_rewards; current_timestep is 0 when such a reset restarts the
\* counters and when it returns with no other call made meanwhile, grows by
\* exactly 1 on each step that returns, and so always equals the number of
\* steps completed since reset.
C2_CounterStep ==
    /\ episode' >= episode
    /\ last_op' = "reset_sleep"
          => (episode' = episode + 1 /\ current_timestep' = 0)
    /\ (last_op' = "reset" /\ last_err' = NoError)
          => /\ episode' = episode
             /\ current_timestep' = current_timestep
             /\ calls' = 0 => current_timestep' = 0
    /\ last_op' \in {"step", "set_agents", "calculate_rewards"} => episode' = episode
    /\ (last_op' = "step" /\ last_err' = NoError)
          => current_timestep' = current_timestep + 1
    /\ (last_op' = "step" /\ last_err' # NoError)
          => current_timestep' = current_timestep

C2_Counters ==
    /\ [](current_timestep # None => current_timestep = completed)
    /\ [][C2_CounterStep]_vars

C2_Witness ==
    Sequential /\ Returned("step") /\ episode = 2 /\ current_timestep = 2 /\ completed = 2

\* C3: reset called while no agents are registered fails with
\* InvalidStateError and leaves episode, current_timestep,
\* cumulative_rewards and the grid as they were.  (A reset that wakes from
\* its sleep is the end of an earlier call, not a call.)
C3_ResetWhileUnconfigured ==
    [][(last_op' \in {"reset", "reset_sleep"} /\ sleeping' >= sleeping
           /\ (agents_is_none \/ agents = <<>>))
          => /\ last_err' = "InvalidStateError"
             /\ UNCHANGED <<episode, current_timestep, cumulative_rewards, gridworld>>
      ]_vars

\* C4 (calls made one at a time, none while another is in progress):
\* step after set_agents and before any reset fails with
\* InvalidStateError before any action is applied, any agent is stepped or
\* the grid is changed.
C4_StepBeforeReset ==
    [][(Sequential' /\ last_op' = "step" /\ count_ok' /\ ~agents_is_none
            /\ agents # <<>> /\ current_timestep = None)
          => /\ last_err' = "InvalidStateError"
             /\ UNCHANGED <<agents, gridworld>>
      ]_vars

\* C5 (calls made one at a time, none while another is in progress):
\* step with len(actions) different from the number of registered agents
\* fails with ValueError and leaves agents, grid, cumulative_rewards and
\* current_timestep as they were.
C5_ActionCountMismatch ==
    [][(Sequential' /\ last_op' = "step" /\ ~count_ok' /\ ~agents_is_none
            /\ current_timestep # None)
          => /\ last_err' = "ValueError"
             /\ UNCHANGED <<agents, gridworld, cumulative_rewards, current_timestep>>
      ]_vars

\* C6 (calls made one at a time, none while another is in progress):
\* set_agents does not accept an argument that is no non-empty list; in
\* particular it never returns leaving an empty agent collection
\* (n_agents = 0).
C6_SetAgentsNeedsAgents ==
    (Sequential /\ Returned("set_agents")) => (agents # <<>> /\ n_agents # 0)

\* C7 (calls made one at a time, none while another is in progress):
\* set_agents (given a list) while an episode is Running is rejected
\* with InvalidStateError and leaves the agent collection, n_agents and
\* state_space as they were.
C7_SetAgentsMidEpisode ==
    [][(Sequential' /\ last_op' = "set_agents" /\ last_err' # SetAgentsTypeError
            /\ Running)
          => /\ last_err' = "InvalidStateError"
             /\ UNCHANGED <<agents, n_agents, state_space>>
      ]_vars

\* C8: after set_agents, whatever the initial names, the resolved names of
\* the agents are pairwise distinct.
C8_NamesDistinct ==
    Returned("set_agents")
        => \A i, j \in 1..Len(agents) : i # j => agents[i].name # agents[j].name

\* C9: after set_agents, whatever the initial colours, the resolved colours
\* are hex strings and pairwise distinct.
C9_ColorsDistinctHex ==
    Returned("set_agents")
        => /\ \A i \in 1..Len(agents) : StartsWithHash(agents[i].color)
           /\ \A i, j \in 1..Len(agents) : i # j => agents[i].color # agents[j].color

\* C10: after set_agents the agent at 0-based list position i has id i + 1
\* (here: the agent at 1-based position k has id k), and reset and step never
\* change an agent's id.
C10_IdsKept ==
    last_op' \in {"reset", "reset_sleep", "step", "calculate_rewards"}
        => /\ Len(agents') = Len(agents)
           /\ \A k \in 1..Len(agents) : agents'[k].id = agents[k].id

C10_IdsInOrder ==
    /\ [](~agents_is_none => \A k \in 1..Len(agents) : agents[k].id = k)
    /\ [][C10_IdsKept]_vars

C10_Witness ==
    /\ Sequential
    /\ Returned("step") /\ current_timestep = 2
    /\ Len(agents) = 2 /\ agents[1].id = 1 /\ agents[2].id = 2

\* The position of stage x in the sequence of stages (0: not in it).
Pos(seq, x) ==
    IF \E i \in 1..Len(seq) : seq[i] = x
    THEN CHOOSE i \in 1..Len(seq) : seq[i] = x /\ \A j \in 1..(i - 1) : seq[j] # x
    ELSE 0

\* Stage x is in the sequence of stages and stage y comes after it.
Before(seq, x, y) ==
    \E i \in 1..Len(seq) :
        seq[i] = x /\ \E j \in (i + 1)..Len(seq) : seq[j] = y

\* The number of times stage x is in the sequence of stages.
Times(seq, x) == Cardinality({i \in 1..Len(seq) : seq[i] = x})

\* The sum of a sequence of numbers.
RECURSIVE Total(_)
Total(seq) == IF seq = <<>> THEN 0 ELSE Head(seq) + Total(Tail(seq))

\* C11 (calls made one at a time, none while another is in progress):
\* a step or a reset that got as far as sending to the visualization
\* server or the database returns, whether or not the send raised: the step
\* returns one reward per agent and has incremented current_timestep, the
\* reset leaves the episode running at current_timestep 0.
C11_SendFailureContained ==
    (Sequential /\ last_op \in {"step", "reset"} /\ sent_view # <<>>)
        => /\ last_err = NoError
           /\ last_op = "step"
                => /\ Len(ret_rewards) = Len(agents)
                   /\ current_timestep = sent_view[1].ts + 1
           /\ last_op = "reset" => (current_timestep = 0 /\ Running)

\* C12 (calls made one at a time, none while another is in progress):
\* what a step sends is final: the agents, the grid, the cumulative
\* rewards and current_timestep the sends of a step see are the ones the
\* environment has when the step returns.
C12_SendSeesFinalState ==
    (Sequential /\ Returned("step") /\ sent_view # <<>>)
        => sent_view[1] = ViewAtSend(agents, gridworld, cumulative_rewards,
                                     current_timestep)

\* C13: in every step that returns, the rewards are computed after action
\* resolution and before regeneration: they are computed on a grid that
\* holds what resolution left of the grid the step started on, every cell
\* regenerated by this step is still empty in it, and the rewards returned
\* add up to what resolution took from the grid.
C13_Step ==
    (last_op' = "step" /\ last_err' = NoError)
        => /\ Before(stages', "resolve", "rewards")
           /\ Before(stages', "rewards", "regenerate")
           /\ Len(rewards_grid') = 1
           /\ \A c \in Cells : /\ rewards_grid'[1][c] <= gridworld[c]
                                /\ rewards_grid'[1][c] <= gridworld'[c]
           /\ Total(ret_rewards') = Total(gridworld) - Total(rewards_grid'[1])

C13_RewardsBeforeRegeneration == [][C13_Step]_vars

C13_Witness ==
    /\ Sequential
    /\ Returned("step") /\ ret_rewards = <<1>>
    /\ rewards_grid = << <<0>> >> /\ gridworld = <<1>>

\* C14 (calls made one at a time, none while another is in progress):
\* every step that returns has invoked the marketplace's match exactly
\* once, after action resolution and before regeneration and the rewards.
C14_MatchOncePerStep ==
    (Sequential /\ Returned("step"))
        => /\ Times(stages, "match") = 1
           /\ Pos(stages, "resolve") < Pos(stages, "match")
           /\ Pos(stages, "match") < Pos(stages, "regenerate")
           /\ Pos(stages, "match") < Pos(stages, "rewards")

\* C15 (calls made one at a time, none while another is in progress):
\* once an episode has started, 0 <= current_timestep <= max_steps; a
\* step on a finished episode does not take the counter past max_steps.
C15_TimestepBounded ==
    (Sequential /\ current_timestep # None)
        => (0 <= current_timestep /\ current_timestep <= max_steps)

\* C16 (calls made one at a time, none while another is in progress):
\* the observation reset and every step return is an array of shape
\* (num_resources + n_agents, width, height).
C16_ObservationShape ==
    (Sequential /\ (Returned("reset") \/ Returned("step")) /\ ret_state # <<>>)
        => ret_state[1].shape = <<NumResources + Len(agents), GridW, GridH>>

\* C17: two runs with the same seed (any integer, 0 included) and the same
\* agent list resolve the same colour for every agent.
C17_SameColorsInBothRuns ==
    (Returned("set_agents") /\ seed # None /\ Len(twin) = Len(agents))
        => \A i \in 1..Len(agents) : twin[i].color = agents[i].color

\* C18 (calls made one at a time, none while another is in progress):
\* reset leaves one zero per agent in cumulative_rewards, and after any
\* k steps that returned since that reset, cumulative_rewards[i] is the sum
\* of the k rewards those steps returned for agent i.
C18_CumulativeIsSum ==
    /\ (Sequential /\ Returned("reset"))
          => cumulative_rewards = [i \in 1..Len(agents) |-> 0]
    /\ (Sequential /\ Returned("step") /\ paid # <<>>) => cumulative_rewards = paid

\* C19: whenever agents are registered, by the constructor or by set_agents,
\* the environment's state_space is (num_resources + n_agents) * width *
\* height and is the state_space stored on every agent.
C19_StateSpaceAgrees ==
    (~agents_is_none /\ n_agents # None)
        => /\ state_space = (NumResources + n_agents) * GridW * GridH
           /\ \A i \in 1..Len(agents) : agents[i].state_space = state_space

\* C20 (calls made one at a time, none while another is in progress):
\* whenever step has computed rewards, cumulative_rewards has one
\* entry per registered agent.
C20_OneCumulativePerAgent ==
    (Sequential /\ last_op = "step" /\ Pos(stages, "rewards") > 0)
        => Len(cumulative_rewards) = Len(agents)

====
